---- MODULE Spec2Model ----
(***************************************************************************)
(* State-machine model of src/app.py (Gurudatta Travels, Flask +           *)
(* SQLAlchemy + flask_login).                                              *)
(*                                                                         *)
(* The four tables are sequences of rows; a row's primary key is its       *)
(* position (rows are never deleted by any route, and no claim depends on  *)
(* the numeric value of a key beyond identity).  One browser session is    *)
(* modelled: `session` is the id stored in the flask_login cookie, 0 when  *)
(* anonymous.  Every action is one HTTP request handled to completion and  *)
(* records the response in `last`.                                         *)
(*                                                                         *)
(* Form fields are strings; NONE stands for a field absent from the form   *)
(* (request.form.get returns None).  Fields no claim looks at (a           *)
(* destination's location, a package's name) are taken as supplied.        *)
(* Prices are floats in the source; the model uses whole amounts, which    *)
(* float arithmetic represents exactly.  Columns no route reads back       *)
(* (description, best_season, duration, image_file, date_booked) are left  *)
(* out, and with them the image upload.                                    *)
(***************************************************************************)
EXTENDS Integers, Sequences, FiniteSets, TLC

VARIABLES users, dests, pkgs, bookings, session, fk_enforced, last

vars == <<users, dests, pkgs, bookings, session, fk_enforced, last>>
db == <<users, dests, pkgs, bookings>>

(* ---------------------------- bounds ----------------------------------- *)
\* no request adds a row once the catalogue and the bookings together hold
\* MaxRows rows (the source has no limit)
MaxRows == 3
\* InitCatalog draws catalogues of at most MaxCatalog rows
MaxCatalog == 4

(* ---------------------------- inputs ----------------------------------- *)
NONE == "<None>"
Usernames == {"admin", "alice", NONE}
Passwords == {"admin123", NONE}
DestNames == {"Goa", "Kashmir", NONE}
PriceInputs == {"100", "250"}
CapacityInputs == {"10", "ten"}
DestIdInputs == {"1", "2"}
TravelerInputs == {"2", "two"}
PkgIdInputs == 1..MaxRows
BookingIdInputs == 1..MaxRows

(* ------------------------- pure helpers -------------------------------- *)
\* the decimal literals the inputs use
IntLiteral == ("1" :> 1) @@ ("2" :> 2) @@ ("3" :> 3) @@ ("10" :> 10)
FloatLiteral == ("100" :> 100) @@ ("250" :> 250)

\* Python int(x): TypeError on None, ValueError on a non-numeric string
PyInt(x) ==
    IF x = NONE THEN [ok |-> FALSE, val |-> 0, err |-> "TypeError"]
    ELSE IF x \in DOMAIN IntLiteral
         THEN [ok |-> TRUE, val |-> IntLiteral[x], err |-> ""]
         ELSE [ok |-> FALSE, val |-> 0, err |-> "ValueError"]

\* Python float(x)
PyFloat(x) ==
    IF x = NONE THEN [ok |-> FALSE, val |-> 0, err |-> "TypeError"]
    ELSE IF x \in DOMAIN FloatLiteral
         THEN [ok |-> TRUE, val |-> FloatLiteral[x], err |-> ""]
         ELSE [ok |-> FALSE, val |-> 0, err |-> "ValueError"]

\* werkzeug: the stored credential is a one-way hash, never the plaintext
generate_password_hash(pw) == <<"pbkdf2", pw>>
check_password_hash(h, pw) == h = generate_password_hash(pw)

\* User.query.filter_by(username=u).first(): the row id, 0 when no row
UserByName(u) ==
    IF \E i \in DOMAIN users : users[i].username = u
    THEN CHOOSE i \in DOMAIN users :
            /\ users[i].username = u
            /\ \A j \in DOMAIN users : users[j].username = u => i <= j
    ELSE 0

(* --------------------------- responses --------------------------------- *)
NoOut == [revenue |-> 0, popular |-> "", count |-> 0, packages |-> <<>>, bookings |-> <<>>]

Resp(op, code, loc, err) ==
    [op |-> op, code |-> code, loc |-> loc, err |-> err, out |-> NoOut]

\* flask_login's login_required: an anonymous request is sent to login_view
Unauthorized(op) == Resp(op, 302, "login", "")

\* rows the model has room for
Rows == Len(dests) + Len(pkgs) + Len(bookings)

(* ----------------------------- startup --------------------------------- *)
\* db.create_all() on an empty database, then the seeded administrator.
\* The database is SQLite unless DATABASE_URL names PostgreSQL; SQLite as
\* SQLAlchemy opens it does not enforce FOREIGN KEY clauses, PostgreSQL does.
Init ==
    /\ users = << [username |-> "admin",
                   password |-> generate_password_hash("admin123"),
                   role |-> "admin"] >>
    /\ dests = <<>>
    /\ pkgs = <<>>
    /\ bookings = <<>>
    /\ session = 0
    /\ fk_enforced \in BOOLEAN
    /\ last = Resp("startup", 0, "", "")

(* ------------------------------ queries -------------------------------- *)
Ids(table) == [i \in 1..Len(table) |-> i]

\* Package.query.join(Destination).filter(Destination.is_active == True):
\* an inner join on package.dest_id = destination.id, in primary-key order
\* the join without the is_active filter
ActivePackages_all ==
    SelectSeq(Ids(pkgs), LAMBDA p : \E d \in DOMAIN dests : pkgs[p].dest_id = d)

ActivePackages ==
    SelectSeq(Ids(pkgs),
              LAMBDA p : \E d \in DOMAIN dests :
                            pkgs[p].dest_id = d /\ dests[d].is_active = TRUE)

\* SUM(col) over a set of booking rows; SQL yields NULL over no rows
RECURSIVE SumPrices(_)
SumPrices(S) ==
    IF S = {} THEN 0
    ELSE LET b == CHOOSE x \in S : TRUE
         IN  bookings[b].total_price + SumPrices(S \ {b})

SqlSum(S) ==
    IF S = {} THEN [null |-> TRUE, val |-> 0]
    ELSE [null |-> FALSE, val |-> SumPrices(S)]

\* every booking row, whatever its status
ConfirmedRows_all == DOMAIN bookings

\* the rows filter_by(status='Confirmed') keeps
ConfirmedRows == {b \in DOMAIN bookings : bookings[b].status = "Confirmed"}

\* db.session.query(func.sum(Booking.total_price))
\*   .filter_by(status='Confirmed').scalar() or 0
Revenue ==
    LET s == SqlSum(ConfirmedRows)
    IN  IF s.null \/ s.val = 0 THEN 0 ELSE s.val

\* select_from(Destination).join(Package).join(Booking): inner joins
JoinRows ==
    {r \in (DOMAIN dests) \X (DOMAIN pkgs) \X (DOMAIN bookings) :
        /\ pkgs[r[2]].dest_id = r[1]
        /\ bookings[r[3]].package_id = r[2]}

\* group_by(Destination.id) with count(Booking.id)
GroupCount(d) == Cardinality({r \in JoinRows : r[1] = d})
Groups == {r[1] : r \in JoinRows}

\* order_by(count desc).first(): any group of greatest count (the order
\* among equal counts is left to the database)
PopularChoices ==
    {d \in Groups : \A e \in Groups : GroupCount(e) <= GroupCount(d)}

\* the package price alone
TotalPrice_noMul(pkg_id, num) == pkgs[pkg_id].price

\* pkg.price * num
TotalPrice(pkg_id, num) == pkgs[pkg_id].price * num

(* ------------------------------ routes --------------------------------- *)
\* GET /
index ==
    /\ last' = [Resp("index", 200, "", "") EXCEPT
                  !.out = [NoOut EXCEPT !.packages = ActivePackages]]
    /\ UNCHANGED <<db, session, fk_enforced>>

\* GET|POST /login
login(method, username, password) ==
    /\ UNCHANGED <<db, fk_enforced>>
    /\ IF method = "POST"
       THEN LET user == UserByName(username)
            IN  IF user # 0 /\ password = NONE
                THEN \* check_password_hash(hash, None) raises
                     /\ session' = session
                     /\ last' = Resp("login", 500, "", "AttributeError")
                ELSE IF user # 0 /\ check_password_hash(users[user].password, password)
                THEN /\ session' = user
                     /\ last' = Resp("login", 302,
                                     IF users[user].role = "admin"
                                     THEN "admin_dashboard" ELSE "index", "")
                ELSE /\ session' = session
                     /\ last' = Resp("login", 200, "", "Invalid Credentials")
       ELSE /\ session' = session
            /\ last' = Resp("login", 200, "", "")

\* registration over a username column without unique=True
register_nounique(method, username, password) ==
    /\ UNCHANGED <<dests, pkgs, bookings, session, fk_enforced>>
    /\ IF method = "POST"
       THEN IF password = NONE
            THEN /\ users' = users
                 /\ last' = Resp("register", 500, "", "AttributeError")
            ELSE IF username = NONE
            THEN /\ users' = users
                 /\ last' = Resp("register", 500, "", "IntegrityError: NOT NULL")
            ELSE /\ Len(users) < 3
                 /\ users' = Append(users,
                        [username |-> username,
                         password |-> generate_password_hash(password),
                         role |-> "customer"])
                 /\ last' = Resp("register", 302, "login", "")
       ELSE /\ users' = users
            /\ last' = Resp("register", 200, "", "")

\* GET|POST /register
register(method, username, password) ==
    /\ UNCHANGED <<dests, pkgs, bookings, session, fk_enforced>>
    /\ IF method = "POST"
       THEN IF password = NONE
            THEN \* generate_password_hash(None) raises
                 /\ users' = users
                 /\ last' = Resp("register", 500, "", "AttributeError")
            ELSE IF username = NONE
            THEN \* username is nullable=False
                 /\ users' = users
                 /\ last' = Resp("register", 500, "", "IntegrityError: NOT NULL")
            ELSE IF \E i \in DOMAIN users : users[i].username = username
            THEN \* username is unique=True
                 /\ users' = users
                 /\ last' = Resp("register", 500, "", "IntegrityError: UNIQUE")
            ELSE /\ users' = Append(users,
                        [username |-> username,
                         password |-> generate_password_hash(password),
                         role |-> "customer"])
                 /\ last' = Resp("register", 302, "login", "")
       ELSE /\ users' = users
            /\ last' = Resp("register", 200, "", "")

\* GET /logout
logout ==
    /\ session' = 0
    /\ last' = Resp("logout", 302, "index", "")
    /\ UNCHANGED <<db, fk_enforced>>

\* GET /admin/dashboard
admin_dashboard ==
    /\ UNCHANGED <<db, session, fk_enforced>>
    /\ IF session = 0
       THEN last' = Unauthorized("admin_dashboard")
       ELSE IF users[session].role # "admin"
       THEN last' = Resp("admin_dashboard", 302, "index", "")
       ELSE \E popular \in IF PopularChoices = {} THEN {"No Bookings"}
                           ELSE {dests[d].name : d \in PopularChoices} :
              last' = [Resp("admin_dashboard", 200, "", "") EXCEPT
                         !.out = [NoOut EXCEPT !.revenue = Revenue,
                                               !.popular = popular,
                                               !.count = Len(bookings)]]

\* GET|POST /admin/add-destination
add_destination(method, name) ==
    /\ UNCHANGED <<users, pkgs, bookings, session, fk_enforced>>
    /\ IF session = 0
       THEN /\ dests' = dests
            /\ last' = Unauthorized("add_destination")
       ELSE IF method = "POST"
       THEN IF name = NONE
            THEN \* name is nullable=False
                 /\ dests' = dests
                 /\ last' = Resp("add_destination", 500, "", "IntegrityError: NOT NULL")
            ELSE /\ Rows < MaxRows
                 /\ dests' = Append(dests, [name |-> name, is_active |-> TRUE])
                 /\ last' = Resp("add_destination", 302, "admin_dashboard", "")
       ELSE /\ dests' = dests
            /\ last' = Resp("add_destination", 200, "", "")

\* GET|POST /admin/add-package
add_package(method, price, capacity, dest_id) ==
    /\ UNCHANGED <<users, dests, bookings, session, fk_enforced>>
    /\ IF session = 0
       THEN /\ pkgs' = pkgs
            /\ last' = Unauthorized("add_package")
       ELSE IF method = "POST"
       THEN LET p == PyFloat(price)
                c == PyInt(capacity)
                d == PyInt(dest_id)
            IN  IF ~p.ok
                THEN /\ pkgs' = pkgs
                     /\ last' = Resp("add_package", 500, "", p.err)
                ELSE IF ~c.ok
                THEN /\ pkgs' = pkgs
                     /\ last' = Resp("add_package", 500, "", c.err)
                ELSE IF ~d.ok
                THEN /\ pkgs' = pkgs
                     /\ last' = Resp("add_package", 500, "", d.err)
                ELSE IF fk_enforced /\ d.val \notin DOMAIN dests
                THEN \* ForeignKey('destination.id'), where the database checks it
                     /\ pkgs' = pkgs
                     /\ last' = Resp("add_package", 500, "", "IntegrityError: FOREIGN KEY")
                ELSE /\ Rows < MaxRows
                     /\ pkgs' = Append(pkgs, [price |-> p.val, max_capacity |-> c.val,
                                              dest_id |-> d.val])
                     /\ last' = Resp("add_package", 302, "admin_dashboard", "")
       ELSE /\ pkgs' = pkgs
            /\ last' = Resp("add_package", 200, "", "")

\* the booking route without login_required
book_package_anon(pkg_id, travelers) ==
    /\ UNCHANGED <<users, dests, pkgs, session, fk_enforced>>
    /\ IF pkg_id \notin DOMAIN pkgs
       THEN /\ bookings' = bookings
            /\ last' = Resp("book_package", 404, "", "NotFound")
       ELSE LET num == IF travelers = NONE
                       THEN [ok |-> TRUE, val |-> 1, err |-> ""]
                       ELSE PyInt(travelers)
            IN  IF ~num.ok
                THEN /\ bookings' = bookings
                     /\ last' = Resp("book_package", 500, "", num.err)
                ELSE /\ Rows < MaxRows
                     /\ bookings' = Append(bookings,
                            [user_id |-> session, package_id |-> pkg_id,
                             travelers |-> num.val,
                             total_price |-> TotalPrice(pkg_id, num.val),
                             status |-> "Pending"])
                     /\ last' = Resp("book_package", 302, "my_bookings", "")

\* POST /book/<int:pkg_id>
book_package(pkg_id, travelers) ==
    /\ UNCHANGED <<users, dests, pkgs, session, fk_enforced>>
    /\ IF session = 0
       THEN /\ bookings' = bookings
            /\ last' = Unauthorized("book_package")
       ELSE IF pkg_id \notin DOMAIN pkgs
       THEN \* get_or_404
            /\ bookings' = bookings
            /\ last' = Resp("book_package", 404, "", "NotFound")
       ELSE LET num == IF travelers = NONE
                       THEN [ok |-> TRUE, val |-> 1, err |-> ""]
                       ELSE PyInt(travelers)
            IN  IF ~num.ok
                THEN /\ bookings' = bookings
                     /\ last' = Resp("book_package", 500, "", num.err)
                ELSE /\ Rows < MaxRows
                     /\ bookings' = Append(bookings,
                            [user_id |-> session, package_id |-> pkg_id,
                             travelers |-> num.val,
                             total_price |-> TotalPrice(pkg_id, num.val),
                             status |-> "Pending"])
                     /\ last' = Resp("book_package", 302, "my_bookings", "")

\* GET /my-bookings
my_bookings ==
    /\ UNCHANGED <<db, session, fk_enforced>>
    /\ IF session = 0
       THEN last' = Unauthorized("my_bookings")
       ELSE last' = [Resp("my_bookings", 200, "", "") EXCEPT
                       !.out = [NoOut EXCEPT !.bookings =
                                 SelectSeq(Ids(bookings),
                                           LAMBDA b : bookings[b].user_id = session)]]

\* a confirmation that flips the status instead of setting it
confirm_booking_toggle(id) ==
    /\ UNCHANGED <<users, dests, pkgs, session, fk_enforced>>
    /\ IF session = 0
       THEN /\ bookings' = bookings
            /\ last' = Unauthorized("confirm_booking")
       ELSE IF id \notin DOMAIN bookings
       THEN /\ bookings' = bookings
            /\ last' = Resp("confirm_booking", 500, "", "AttributeError")
       ELSE /\ bookings' = [bookings EXCEPT ![id].status =
                               IF @ = "Pending" THEN "Confirmed" ELSE "Pending"]
            /\ last' = Resp("confirm_booking", 302, "admin_dashboard", "")

\* GET /admin/confirm/<int:id>
confirm_booking(id) ==
    /\ UNCHANGED <<users, dests, pkgs, session, fk_enforced>>
    /\ IF session = 0
       THEN /\ bookings' = bookings
            /\ last' = Unauthorized("confirm_booking")
       ELSE IF id \notin DOMAIN bookings
       THEN \* Booking.query.get(id) is None; None.status = ... raises
            /\ bookings' = bookings
            /\ last' = Resp("confirm_booking", 500, "", "AttributeError")
       ELSE /\ bookings' = [bookings EXCEPT ![id].status = "Confirmed"]
            /\ last' = Resp("confirm_booking", 302, "admin_dashboard", "")

(* --------------------------- specification ----------------------------- *)
\* a GET carries no form, so every field of it reads as None
Next ==
    \/ index
    \/ login("GET", NONE, NONE)
    \/ \E u \in Usernames, p \in Passwords : login("POST", u, p)
    \/ register("GET", NONE, NONE)
    \/ \E u \in Usernames, p \in Passwords : register("POST", u, p)
    \/ logout
    \/ admin_dashboard
    \/ add_destination("GET", NONE)
    \/ \E n \in DestNames : add_destination("POST", n)
    \/ add_package("GET", NONE, NONE, NONE)
    \/ \E p \in PriceInputs, c \in CapacityInputs, d \in DestIdInputs :
          add_package("POST", p, c, d)
    \/ \E id \in PkgIdInputs, t \in TravelerInputs : book_package(id, t)
    \/ my_bookings
    \/ \E id \in BookingIdInputs : confirm_booking(id)

Spec == Init /\ [][Next]_vars

(* ---------------- the public listing over any catalogue ----------------- *)
\* The listing query is a function of the catalogue alone.  InitCatalog
\* draws the catalogue from every table content of at most MaxCatalog rows,
\* inactive destinations included (no route clears is_active; the column is
\* there for the database's operator to clear), and NextCatalog applies the
\* query.
DestRows == [name : DestNames \ {NONE}, is_active : BOOLEAN]
PkgRows == [price : {FloatLiteral[x] : x \in DOMAIN FloatLiteral},
            max_capacity : {IntLiteral["10"]},
            dest_id : {IntLiteral[x] : x \in DestIdInputs}]
Tables(R, n) == UNION {[1..k -> R] : k \in 0..n}

InitCatalog ==
    /\ users = << [username |-> "admin",
                   password |-> generate_password_hash("admin123"),
                   role |-> "admin"] >>
    /\ bookings = <<>>
    /\ session = 0
    /\ fk_enforced \in BOOLEAN
    /\ dests \in Tables(DestRows, MaxCatalog)
    /\ pkgs \in Tables(PkgRows, MaxCatalog - Len(dests))
    /\ fk_enforced => \A p \in DOMAIN pkgs : pkgs[p].dest_id \in DOMAIN dests
    /\ last = Resp("startup", 0, "", "")

NextCatalog == index

SpecCatalog == InitCatalog /\ [][NextCatalog]_vars

(* ------------------------------ claims --------------------------------- *)
IsAdmin == session # 0 /\ users[session].role = "admin"
Range(f) == {f[i] : i \in DOMAIN f}

\* C1: a Destination or Package is created, or a Booking's status changed,
\* only by a request whose session belongs to an account with role 'admin'
\* (a customer's request changes nothing).  The routes check login only.
C1_AdminOnlyWrites ==
    [][ ( \/ dests' # dests
          \/ pkgs' # pkgs
          \/ \E b \in DOMAIN bookings : bookings'[b].status # bookings[b].status )
        => IsAdmin ]_vars

\* C2: a booking request on an existing package appends exactly one booking:
\* Pending, owned by the session's account, priced package price times the
\* traveller count (two travellers: twice the price); no step changes the
\* total_price of a booking already stored.
C2_Step ==
    /\ Len(bookings') <= Len(bookings) + 1
    /\ \A b \in DOMAIN bookings :
          /\ b \in DOMAIN bookings'
          /\ bookings'[b].total_price = bookings[b].total_price
    /\ Len(bookings') = Len(bookings) + 1 =>
          LET n == bookings'[Len(bookings')]
          IN  /\ session # 0 /\ n.user_id = session
              /\ n.status = "Pending"
              /\ n.package_id \in DOMAIN pkgs
              /\ n.total_price = pkgs[n.package_id].price * n.travelers
    /\ \A id \in PkgIdInputs :
          (session # 0 /\ id \in DOMAIN pkgs /\ book_package(id, "2")) =>
             /\ Len(bookings') = Len(bookings) + 1
             /\ bookings'[Len(bookings')].package_id = id
             /\ bookings'[Len(bookings')].total_price = 2 * pkgs[id].price

C2_BookingPriceFixed == [][C2_Step]_vars

C2_Witness ==
    \E b \in DOMAIN bookings :
        /\ bookings[b].status = "Confirmed"
        /\ bookings[b].travelers = 2
        /\ bookings[b].total_price = 2 * pkgs[bookings[b].package_id].price
        /\ bookings[b].total_price > 0
        /\ users[bookings[b].user_id].role = "customer"

\* C3: confirming a booking id that does not exist completes without a
\* server error and leaves every table unchanged.
C3_ConfirmMissingNoOp ==
    [][ \A id \in BookingIdInputs :
          (id \notin DOMAIN bookings /\ confirm_booking(id)) =>
             (last'.code # 500 /\ db' = db) ]_vars

\* C4: the revenue the admin dashboard shows is the sum of total_price over
\* the Confirmed bookings only, and 0 when there is none.
RECURSIVE ConfirmedTotal(_)
ConfirmedTotal(n) ==
    IF n = 0 THEN 0
    ELSE ConfirmedTotal(n - 1)
         + (IF bookings[n].status = "Confirmed" THEN bookings[n].total_price ELSE 0)

C4_RevenueIsConfirmedSum ==
    (last.op = "admin_dashboard" /\ last.code = 200) =>
        /\ last.out.revenue = ConfirmedTotal(Len(bookings))
        /\ (\A b \in DOMAIN bookings : bookings[b].status = "Pending")
              => last.out.revenue = 0

C4_Witness ==
    /\ last.op = "admin_dashboard" /\ last.code = 200
    /\ last.out.revenue > 0
    /\ \E b \in DOMAIN bookings : bookings[b].status = "Pending"
    /\ \E b \in DOMAIN bookings : bookings[b].status = "Confirmed"

\* C5: confirming an existing booking sets its status to Confirmed and
\* touches nothing else; confirming a Confirmed booking changes nothing;
\* no step takes a booking from Confirmed back to Pending.
C5_Step ==
    /\ \A b \in DOMAIN bookings :
          bookings[b].status = "Confirmed" =>
             (b \in DOMAIN bookings' /\ bookings'[b].status = "Confirmed")
    /\ \A id \in BookingIdInputs :
          (session # 0 /\ id \in DOMAIN bookings /\ confirm_booking(id)) =>
             /\ DOMAIN bookings' = DOMAIN bookings
             /\ bookings'[id].status = "Confirmed"
             /\ \A b \in DOMAIN bookings :
                   /\ b # id => bookings'[b] = bookings[b]
                   /\ bookings'[b].user_id = bookings[b].user_id
                   /\ bookings'[b].package_id = bookings[b].package_id
                   /\ bookings'[b].travelers = bookings[b].travelers
                   /\ bookings'[b].total_price = bookings[b].total_price
             /\ <<users, dests, pkgs>>' = <<users, dests, pkgs>>
             /\ bookings[id].status = "Confirmed" => db' = db

C5_ConfirmIdempotent == [][C5_Step]_vars

C5_Witness ==
    /\ last.op = "confirm_booking" /\ last.code = 302 /\ last.loc = "admin_dashboard"
    /\ \E b \in DOMAIN bookings : bookings[b].status = "Confirmed"
    /\ \E b \in DOMAIN bookings : bookings[b].status = "Pending"

\* C6: registering a username that is already stored (the seeded admin
\* included) fails on the uniqueness constraint and leaves the accounts
\* unchanged; usernames stay unique; a successful registration adds exactly
\* one account, with role 'customer'.
UsernamesUnique(u) ==
    \A i, j \in DOMAIN u : u[i].username = u[j].username => i = j

C6_Step ==
    /\ UsernamesUnique(users')
    /\ \A u \in Usernames, p \in Passwords :
          ((\E i \in DOMAIN users : users[i].username = u) /\ register("POST", u, p)) =>
             /\ users' = users
             /\ last'.code = 500
             /\ p # NONE => last'.err = "IntegrityError: UNIQUE"
    /\ users' # users =>
          /\ Len(users') = Len(users) + 1
          /\ \A i \in DOMAIN users : users'[i] = users[i]
          /\ users'[Len(users')].role = "customer"
          /\ last'.op = "register"

C6_RegisterUnique == [][C6_Step]_vars

C6_Witness ==
    /\ last.op = "register" /\ last.err = "IntegrityError: UNIQUE"
    /\ Len(users) = 2
    /\ users[2].role = "customer"

\* C7: a package whose dest_id names no stored destination is refused, so
\* every stored package belongs to a stored destination.
C7_PackageHasDestination ==
    \A p \in DOMAIN pkgs : pkgs[p].dest_id \in DOMAIN dests

\* C8: the public listing holds exactly the packages whose destination is
\* stored with is_active true, each once.
C8_ListingIsActivePackages ==
    last.op = "index" =>
        /\ \A p \in DOMAIN pkgs :
              (p \in Range(last.out.packages)) <=>
                 ( /\ pkgs[p].dest_id \in DOMAIN dests
                   /\ dests[pkgs[p].dest_id].is_active )
        /\ Range(last.out.packages) \subseteq DOMAIN pkgs
        /\ \A i, j \in DOMAIN last.out.packages :
              last.out.packages[i] = last.out.packages[j] => i = j

C8_Witness ==
    /\ last.op = "index"
    /\ last.out.packages # <<>>
    /\ \E p \in DOMAIN pkgs :
          /\ pkgs[p].dest_id \in DOMAIN dests
          /\ ~dests[pkgs[p].dest_id].is_active

\* C9: the dashboard's most popular destination is "No Bookings" exactly
\* when no booking is stored; otherwise it is the name of a destination
\* with the greatest number of bookings.
BookingCount(d) ==
    Cardinality({b \in DOMAIN bookings :
                    /\ bookings[b].package_id \in DOMAIN pkgs
                    /\ pkgs[bookings[b].package_id].dest_id = d})

C9_PopularDestination ==
    (last.op = "admin_dashboard" /\ last.code = 200) =>
        /\ (last.out.popular = "No Bookings") <=> (bookings = <<>>)
        /\ bookings # <<>> =>
              \E d \in DOMAIN dests :
                  /\ dests[d].name = last.out.popular
                  /\ \A e \in DOMAIN dests : BookingCount(e) <= BookingCount(d)

\* C10: every booking references a stored account and a stored package; a
\* booking request for a package id that is not stored answers 404 and adds
\* no booking; an anonymous booking request adds no booking.
RefsLive(bk) ==
    \A b \in DOMAIN bk :
        bk[b].user_id \in DOMAIN users /\ bk[b].package_id \in DOMAIN pkgs

C10_Step ==
    /\ RefsLive(bookings')
    /\ \A id \in PkgIdInputs, t \in TravelerInputs :
          /\ (session # 0 /\ id \notin DOMAIN pkgs /\ book_package(id, t)) =>
                (bookings' = bookings /\ last'.code = 404 /\ last'.err = "NotFound")
          /\ (session = 0 /\ book_package(id, t)) => db' = db
    /\ session = 0 => bookings' = bookings

C10_BookingRefsLive == [][C10_Step]_vars

C10_Witness ==
    /\ last.op = "book_package" /\ last.code = 404
    /\ bookings # <<>>
    /\ RefsLive(bookings)

====
